---- MODULE Spec2Model ----
(***************************************************************************)
(* Model of the block-deadline execution scheduler of                      *)
(* src/src/same_block_execution.rs: the ExecutionQueue, the registry of    *)
(* pending transactions, the block tracker's current block, the background *)
(* execution task, and the public schedule_transaction/cancel_transaction. *)
(*                                                                         *)
(* Every lock acquisition of the source is one atomic step; the steps of   *)
(* the background task, of the callers of schedule_transaction and of the  *)
(* caller of cancel_transaction interleave freely.                         *)
(*                                                                         *)
(* The connection pool (GrpcManager) and the LoadBalancer of               *)
(* src/src/grpc_manager.rs share no state with the scheduler; they are     *)
(* modelled by the specifications SpecPool and SpecLb further down, each   *)
(* over its own variables, the other components standing still.            *)
(***************************************************************************)
EXTENDS Integers, Sequences, FiniteSets, TLC

\* ---------------------------------------------------------------- bounds
\* Number of schedule_transaction calls made (signatures are 1..MaxSigs).
MaxSigs == 2
\* Largest capacity an ExecutionQueue is constructed with (ExecutionQueue::new
\* takes any capacity; SameBlockExecutor::new passes 1000).
MaxQueueSize == 2
\* Largest target block a caller asks for.
MaxTarget == 15

\* Slots the RPC node reports, and target_block_offset values callers pass.
Slots == {0, 5, 10}
Offsets == {5, 10}

\* Connection ids given to LoadBalancer::add_connection are 1..MaxConnId.
MaxConnId == 3
\* Number of get_next_connection calls that return a connection.
MaxLbCalls == 6

\* Endpoint URLs are 1..MaxEndpoints and the endpoint vector holds at most
\* MaxEndpoints endpoints.
MaxEndpoints == 2
\* The clock runs from 0 to MaxTime seconds.
MaxTime == 90

\* Endpoint priorities are 1..MaxPriority.
MaxPriority == 2
\* Number of subscribe() calls that spawn a task.
MaxSubscriptions == 2
\* Number of updates one upstream stream produces.
MaxUpdates == 2
\* Number of get_message_receiver() calls.
MaxReceivers == 1

\* The RPC node's chain ends at slot MaxSlot at the latest.
MaxSlot == 102
\* get_block_hash calls that wait for the cache's write lock at one time.
MaxAnchorCalls == 2

\* ------------------------------------------------------ program constants
\* enum ExecutionPriority, in declaration order.
Low == 0
Medium == 1
High == 2
Critical == 3
ExecutionPriority == {Low, Medium, High, Critical}

\* The retry limit of the execution task.
MaxRetries == 3

\* The size limit of the block hash cache (get_block_hash).
CacheLimit == 100

\* GrpcManager::new: the capacity the broadcast channel is created with.
ChannelCapacity == 1000

\* GrpcManager::new: health_check_interval and failover_threshold, in seconds.
HealthCheckInterval == 30
FailoverThreshold == 60

Sigs == 1..MaxSigs
NoTx == [signature |-> 0]
NoCall == [signature |-> 0]

\* ------------------------------------------------------------------ state
VARIABLES
    current_block,         \* BlockTracker.current_block
    queue,                 \* ExecutionQueue.queue, front first
    max_queue_size,        \* ExecutionQueue.max_queue_size
    pending_transactions,  \* keys of SameBlockExecutor.pending_transactions
    next_signature,        \* the signature the next schedule_transaction gets
    schedule_calls,        \* signatures added to the queue, registry insert to come
    cancel_call,           \* the cancel_transaction call in progress, or NoCall;
                           \* in_flight and done record what the execution was
                           \* when the call began
    task_pc,               \* execution task: "sleep", "loop", "exec", "requeue"
    task_current_block,    \* execution task: its local current_block (0 out of scope)
    task_pending_tx,       \* execution task: its local pending_tx, or NoTx
    \* observations of what the operations did
    enqueue_height,        \* current block read by the schedule call of a signature
    submit_count,          \* execute_transaction calls started, per signature
    tick_submits,          \* the same, counted within the tick in progress
    confirmed,             \* signatures whose submission returned Ok
    failed,                \* signatures dropped after the last retry
    cancelled,             \* signatures for which cancel_transaction returned true
    rejected,              \* signatures whose schedule call got "queue is full"
    \* GrpcManager
    endpoints,             \* GrpcManager.endpoints, a vector (index 0 first)
    connections,           \* GrpcManager.connections: connection id -> connection
    now,                   \* the monotonic clock read by Instant::now()
    health_task,           \* the health check task was spawned
    pool_last,             \* observation: the last GrpcManager call and its result
    \* LoadBalancer
    lb_connections,        \* LoadBalancer.connections, in push order
    lb_current_index,      \* LoadBalancer.current_index
    lb_returned,           \* observation: what the last get_next_connection returned
    lb_since_change,       \* observation: get_next_connection calls since the
                           \* last add_connection / update_connection_health
    lb_before_change,      \* observation: LoadBalancer.connections before the
                           \* last add_connection / update_connection_health
    lb_history,            \* observation: the ids returned since that change
    \* BlockTracker's block hash cache and the RPC node it asks
    block_hash_cache,      \* BlockTracker.block_hash_cache: slot -> hash
    chain_height,          \* the highest slot the RPC node has a block hash for
    anchor_fetched,        \* get_block_hash calls that hold a fetched hash and
                           \* wait for the cache's write lock
    anchor_last,           \* observation: the last call that returned, the
                           \* node's answer to it and what it returned
    \* GrpcManager's subscriptions and its broadcast channel
    subscriptions,         \* the tasks spawned by subscribe(), in spawn order,
                           \* each with the time its stream last delivered an
                           \* update (an observation; the program keeps none)
    broadcast_log,         \* every value the channel accepted, in send order
    receivers,             \* the channel's receivers: read position and the
                           \* values got so far
    subscribe_last         \* observation: the last subscribe() call, its result
                           \* and the connections that were healthy then

execVars == <<current_block, queue, max_queue_size, pending_transactions,
              next_signature, schedule_calls, cancel_call, task_pc,
              task_current_block, task_pending_tx, enqueue_height, submit_count,
              tick_submits, confirmed, failed, cancelled, rejected>>
poolVars == <<endpoints, connections, now, health_task, pool_last>>
anchorVars == <<block_hash_cache, chain_height, anchor_fetched, anchor_last>>
streamVars == <<subscriptions, broadcast_log, receivers, subscribe_last>>
lbVars == <<lb_connections, lb_current_index, lb_returned, lb_since_change,
           lb_before_change, lb_history>>

vars == <<current_block, queue, max_queue_size, pending_transactions, next_signature,
          schedule_calls, cancel_call, task_pc, task_current_block,
          task_pending_tx, enqueue_height, submit_count, tick_submits,
          confirmed, failed, cancelled, rejected, poolVars, lbVars, anchorVars,
          streamVars>>

\* --------------------------------------------------------- ExecutionQueue
QueueSigs(q) == {q[i].signature : i \in 1..Len(q)}

InsertAt(q, i, tx) == SubSeq(q, 1, i - 1) \o <<tx>> \o SubSeq(q, i, Len(q))

\* add_transaction pushing at the end of the vector whatever the priority;
\* C39 must fail on it.
InsertIndicesAtEnd(q, tx) == {Len(q) + 1}

\* binary_search_by(|tx| tx.priority.cmp(&transaction.priority).reverse()):
\* the vector is ordered by priority, highest first.  Ok(i) for any element
\* of equal priority (the standard library leaves open which), else Err(i),
\* the insertion point.
InsertIndices(q, tx) ==
    LET equal == {i \in 1..Len(q) : q[i].priority = tx.priority}
    IN  IF equal # {}
        THEN equal
        ELSE {Cardinality({i \in 1..Len(q) : q[i].priority > tx.priority}) + 1}

\* add_transaction with a faulty capacity test (off by one); C4 must fail on it.
AddTransactionOffByOne(q, tx, i) ==
    IF Len(q) > max_queue_size
    THEN [ok |-> FALSE, queue |-> q]
    ELSE [ok |-> TRUE, queue |-> InsertAt(q, i, tx)]

\* add_transaction with the binary search's answer i.
AddTransaction(q, tx, i) ==
    IF Len(q) >= max_queue_size
    THEN [ok |-> FALSE, queue |-> q]
    ELSE [ok |-> TRUE, queue |-> InsertAt(q, i, tx)]

\* get_next_transaction that looks at the last element and leaves it in the
\* vector; C12 must fail on it.
GetNextTransactionPeek(q) ==
    IF Len(q) = 0
    THEN [tx |-> NoTx, queue |-> q]
    ELSE [tx |-> q[Len(q)], queue |-> q]

\* get_next_transaction: Vec::pop takes the LAST element.
GetNextTransaction(q) ==
    IF Len(q) = 0
    THEN [tx |-> NoTx, queue |-> q]
    ELSE [tx |-> q[Len(q)], queue |-> SubSeq(q, 1, Len(q) - 1)]

\* remove_transaction: the first element with the signature, if any.
RemoveTransaction(q, sig) ==
    IF sig \in QueueSigs(q)
    THEN LET index == CHOOSE i \in 1..Len(q) :
                        /\ q[i].signature = sig
                        /\ \A j \in 1..(i - 1) : q[j].signature # sig
         IN  [removed |-> TRUE,
              queue |-> SubSeq(q, 1, index - 1) \o SubSeq(q, index + 1, Len(q))]
    ELSE [removed |-> FALSE, queue |-> q]

\* ------------------------------------------------------------------- Init
\* Option<u32>, the result of LoadBalancer::get_next_connection.
None == [some |-> FALSE]
Some(x) == [some |-> TRUE, value |-> x]

\* GrpcManager::new(vec![]): no endpoint, no connection, no task.
PoolIdle ==
    /\ endpoints = <<>>
    /\ connections = <<>>
    /\ now = 0
    /\ health_task = FALSE
    /\ pool_last = [op |-> "new"]

\* BlockTracker::new(): an empty cache; the node is at slot 0.
AnchorIdle ==
    /\ block_hash_cache = <<>>
    /\ chain_height = 0
    /\ anchor_fetched = {}
    /\ anchor_last = [op |-> "new", answer |-> [cached |-> FALSE]]

\* GrpcManager::new: no subscription; the receiver made with the channel is
\* dropped at once (line 40).
StreamIdle ==
    /\ subscriptions = <<>>
    /\ broadcast_log = <<>>
    /\ receivers = <<>>
    /\ subscribe_last = [op |-> "new"]

\* LoadBalancer::new().
LbIdle ==
    /\ lb_connections = <<>>
    /\ lb_current_index = 0
    /\ lb_returned = None
    /\ lb_since_change = 0
    /\ lb_before_change = <<>>
    /\ lb_history = <<>>

\* SameBlockExecutor::new, beside an idle pool and an idle balancer.
Init ==
    /\ PoolIdle
    /\ AnchorIdle
    /\ StreamIdle
    /\ LbIdle
    /\ current_block = 0
    /\ queue = <<>>
    /\ max_queue_size \in 1..MaxQueueSize
    /\ pending_transactions = {}
    /\ next_signature = 1
    /\ schedule_calls = {}
    /\ cancel_call = NoCall
    /\ task_pc = "sleep"
    /\ task_current_block = 0
    /\ task_pending_tx = NoTx
    /\ enqueue_height = [s \in Sigs |-> 0]
    /\ submit_count = [s \in Sigs |-> 0]
    /\ tick_submits = [s \in Sigs |-> 0]
    /\ confirmed = {}
    /\ failed = {}
    /\ cancelled = {}
    /\ rejected = {}

\* ------------------------------------------------------------ BlockTracker
\* update_current_block, Ok(slot): the stored block becomes the polled slot.
UpdateCurrentBlock ==
    /\ \E slot \in Slots : current_block' = slot
    /\ UNCHANGED <<poolVars, lbVars, anchorVars, streamVars, tick_submits, max_queue_size, queue, pending_transactions, next_signature,
                   schedule_calls, cancel_call, task_pc, task_current_block, task_pending_tx,
                   enqueue_height, submit_count, confirmed, failed, cancelled,
                   rejected>>

\* ---------------------------------------------------- schedule_transaction
\* The PendingTransaction built at lines 283-290.
NewPendingTransaction(sig, target, priority) ==
    [signature |-> sig, target_block |-> target, created_at |-> sig,
     priority |-> priority, retry_count |-> 0]

\* schedule_transaction going on to the registry insert whatever
\* add_transaction returned; C35 must fail on it.
AddAcceptedAlways(r) == TRUE

\* Line 293: the `?` after add_transaction; schedule_transaction goes on only
\* when the queue accepted the transaction.
AddAccepted(r) == r.ok

\* Lines 268-293: read the current block, build the transaction, add it to
\* the queue; a full queue returns the error before the registry is touched.
\* (A failed get_block_hash returns at line 272 and changes nothing here.)
ScheduleAdd ==
    /\ next_signature <= MaxSigs
    /\ \E priority \in ExecutionPriority, offset \in Offsets :
         LET target == current_block + offset
             tx == NewPendingTransaction(next_signature, target, priority)
         IN  /\ target <= MaxTarget
             /\ \E i \in InsertIndices(queue, tx) :
                  LET r == AddTransaction(queue, tx, i)
                  IN  /\ queue' = r.queue
                      /\ schedule_calls' =
                           IF AddAccepted(r)
                           THEN schedule_calls \cup {next_signature}
                           ELSE schedule_calls
                      /\ rejected' =
                           IF r.ok
                           THEN rejected
                           ELSE rejected \cup {next_signature}
    /\ enqueue_height' = [enqueue_height EXCEPT ![next_signature] = current_block]
    /\ next_signature' = next_signature + 1
    /\ UNCHANGED <<poolVars, lbVars, anchorVars, streamVars, tick_submits, max_queue_size, current_block, pending_transactions, cancel_call, task_pc,
                   task_current_block, task_pending_tx, submit_count, confirmed,
                   failed, cancelled>>

\* Line 296: the registry insert, under its own lock; then Ok(signature).
ScheduleInsert ==
    /\ \E sig \in schedule_calls :
         /\ pending_transactions' = pending_transactions \cup {sig}
         /\ schedule_calls' = schedule_calls \ {sig}
    /\ UNCHANGED <<poolVars, lbVars, anchorVars, streamVars, tick_submits, max_queue_size, current_block, queue, next_signature, cancel_call, task_pc,
                   task_current_block, task_pending_tx, enqueue_height,
                   submit_count, confirmed, failed, cancelled, rejected>>

\* Signatures a caller holds: its schedule_transaction returned Ok.
Returned ==
    {s \in Sigs : s < next_signature /\ s \notin schedule_calls /\ s \notin rejected}

\* ------------------------------------------------------ cancel_transaction
\* The submission of sig is in flight: execute_transaction was called for it
\* and has not returned.
InFlight(sig) == task_pc = "exec" /\ task_pending_tx.signature = sig

\* Line 316: remove_transaction on the queue, under the queue's lock.
CancelRemoveQueue ==
    /\ cancel_call = NoCall
    /\ \E sig \in Returned :
         LET r == RemoveTransaction(queue, sig)
         IN  /\ queue' = r.queue
             /\ cancel_call' = [signature |-> sig,
                                removed_from_queue |-> r.removed,
                                in_flight |-> InFlight(sig),
                                done |-> sig \in confirmed \cup failed]
    /\ UNCHANGED <<poolVars, lbVars, anchorVars, streamVars, tick_submits, max_queue_size, current_block, pending_transactions, next_signature,
                   schedule_calls, task_pc, task_current_block, task_pending_tx,
                   enqueue_height, submit_count, confirmed, failed, cancelled,
                   rejected>>

\* Line 319: the value cancel_transaction returns.
CancelResult(call, pending) ==
    call.removed_from_queue \/ call.signature \in pending

\* Lines 317-319: remove from the registry, under the registry's lock, and
\* return removed_from_queue || removed_from_pending.
CancelRemovePending ==
    /\ cancel_call # NoCall
    /\ pending_transactions' = pending_transactions \ {cancel_call.signature}
    /\ cancelled' = IF CancelResult(cancel_call, pending_transactions)
                    THEN cancelled \cup {cancel_call.signature}
                    ELSE cancelled
    /\ cancel_call' = NoCall
    /\ UNCHANGED <<poolVars, lbVars, anchorVars, streamVars, tick_submits, max_queue_size, current_block, queue, next_signature, schedule_calls, task_pc,
                   task_current_block, task_pending_tx, enqueue_height,
                   submit_count, confirmed, failed, rejected>>

\* ---------------------------------------------------- start_execution_task
\* The due test with the comparison turned round; C31 must fail on it.
IsDueReversed(tx, block) == tx.target_block >= block

\* Line 213: the transaction is due at the block the tick read.
IsDue(tx, block) == tx.target_block <= block

\* The retry count with the increment lost; C8 must fail on it.
CountRetryLost(tx) == tx

\* Line 227: pending_tx.retry_count += 1.
CountRetry(tx) == [tx EXCEPT !.retry_count = @ + 1]

\* The retry test allowing one retry too many; C10 must fail on it.
ShouldRetryOffByOne(tx) == tx.retry_count <= MaxRetries

\* Line 228: if pending_tx.retry_count < 3.
ShouldRetry(tx) == tx.retry_count < MaxRetries

\* Line 230: pending_tx.priority = ExecutionPriority::High.
Requeued(tx) == [tx EXCEPT !.priority = High]

\* Lines 207-209: the interval fires and the task reads the current block.
Tick ==
    /\ task_pc = "sleep"
    /\ task_pc' = "loop"
    /\ task_current_block' = current_block
    /\ UNCHANGED <<poolVars, lbVars, anchorVars, streamVars, tick_submits, max_queue_size, current_block, queue, pending_transactions, next_signature,
                   schedule_calls, cancel_call, task_pending_tx, enqueue_height,
                   submit_count, confirmed, failed, cancelled, rejected>>

\* Line 212 with an empty queue: the while-let ends, back to the interval.
GetNextNone ==
    /\ task_pc = "loop"
    /\ Len(queue) = 0
    /\ task_pc' = "sleep"
    /\ task_current_block' = 0
    /\ tick_submits' = [s \in Sigs |-> 0]
    /\ UNCHANGED <<poolVars, lbVars, anchorVars, streamVars, max_queue_size, current_block, queue, pending_transactions, next_signature,
                   schedule_calls, cancel_call,
                   task_pending_tx, enqueue_height, submit_count, confirmed,
                   failed, cancelled, rejected>>

\* Lines 212-215: pop a transaction that is due and call execute_transaction.
GetNextDue ==
    /\ task_pc = "loop"
    /\ Len(queue) > 0
    /\ LET r == GetNextTransaction(queue)
       IN  /\ IsDue(r.tx, task_current_block)
           /\ queue' = r.queue
           /\ task_pending_tx' = r.tx
           /\ submit_count' = [submit_count EXCEPT ![r.tx.signature] = @ + 1]
           /\ tick_submits' = [tick_submits EXCEPT ![r.tx.signature] = @ + 1]
    /\ task_pc' = "exec"
    /\ UNCHANGED <<poolVars, lbVars, anchorVars, streamVars, max_queue_size, current_block, pending_transactions, next_signature,
                   schedule_calls, cancel_call, task_current_block,
                   enqueue_height, confirmed, failed, cancelled, rejected>>

\* Lines 212-213, 240: pop a transaction that is not due yet.
GetNextNotDue ==
    /\ task_pc = "loop"
    /\ Len(queue) > 0
    /\ LET r == GetNextTransaction(queue)
       IN  /\ ~IsDue(r.tx, task_current_block)
           /\ queue' = r.queue
           /\ task_pending_tx' = r.tx
    /\ task_pc' = "requeue"
    /\ UNCHANGED <<poolVars, lbVars, anchorVars, streamVars, tick_submits, max_queue_size, current_block, pending_transactions, next_signature,
                   schedule_calls, cancel_call, task_current_block,
                   enqueue_height, submit_count, confirmed, failed, cancelled,
                   rejected>>

\* Lines 216-222: the submission returned Ok; remove from the registry.
ExecuteOk ==
    /\ task_pc = "exec"
    /\ confirmed' = confirmed \cup {task_pending_tx.signature}
    /\ pending_transactions' = pending_transactions \ {task_pending_tx.signature}
    /\ task_pc' = "loop"
    /\ task_pending_tx' = NoTx
    /\ UNCHANGED <<poolVars, lbVars, anchorVars, streamVars, tick_submits, max_queue_size, current_block, queue, next_signature, schedule_calls,
                   cancel_call, task_current_block, enqueue_height, submit_count,
                   failed, cancelled, rejected>>

\* Lines 223-233: the submission returned Err and a retry is left: re-queue.
\* A full queue only logs the error and the transaction is dropped.
ExecuteErrRetry ==
    /\ task_pc = "exec"
    /\ LET counted == CountRetry(task_pending_tx)
       IN  /\ ShouldRetry(counted)
           /\ \E i \in InsertIndices(queue, Requeued(counted)) :
                queue' = AddTransaction(queue, Requeued(counted), i).queue
    /\ task_pc' = "loop"
    /\ task_pending_tx' = NoTx
    /\ UNCHANGED <<poolVars, lbVars, anchorVars, streamVars, tick_submits, max_queue_size, current_block, pending_transactions, next_signature,
                   schedule_calls, cancel_call, task_current_block,
                   enqueue_height, submit_count, confirmed, failed, cancelled,
                   rejected>>

\* Lines 223-228, 234-237: the submission returned Err and no retry is left.
ExecuteErrFinal ==
    /\ task_pc = "exec"
    /\ ~ShouldRetry(CountRetry(task_pending_tx))
    /\ failed' = failed \cup {task_pending_tx.signature}
    /\ pending_transactions' = pending_transactions \ {task_pending_tx.signature}
    /\ task_pc' = "loop"
    /\ task_pending_tx' = NoTx
    /\ UNCHANGED <<poolVars, lbVars, anchorVars, streamVars, tick_submits, max_queue_size, current_block, queue, next_signature, schedule_calls,
                   cancel_call, task_current_block, enqueue_height, submit_count,
                   confirmed, cancelled, rejected>>

\* The put-back without the break of line 245: the loop goes on and pops
\* again; C38 must fail on it.
RequeueLaterNoBreak ==
    /\ task_pc = "requeue"
    /\ \E i \in InsertIndices(queue, task_pending_tx) :
         queue' = AddTransaction(queue, task_pending_tx, i).queue
    /\ task_pc' = "loop"
    /\ task_pending_tx' = NoTx
    /\ UNCHANGED <<poolVars, lbVars, anchorVars, streamVars, tick_submits,
                   task_current_block, max_queue_size, current_block,
                   pending_transactions, next_signature, schedule_calls,
                   cancel_call, enqueue_height, submit_count, confirmed, failed,
                   cancelled, rejected>>

\* Lines 240-246: put the transaction that is not due back and end the tick.
RequeueLater ==
    /\ task_pc = "requeue"
    /\ \E i \in InsertIndices(queue, task_pending_tx) :
         queue' = AddTransaction(queue, task_pending_tx, i).queue
    /\ task_pc' = "sleep"
    /\ task_current_block' = 0
    /\ task_pending_tx' = NoTx
    /\ tick_submits' = [s \in Sigs |-> 0]
    /\ UNCHANGED <<poolVars, lbVars, anchorVars, streamVars, max_queue_size, current_block, pending_transactions, next_signature,
                   schedule_calls, cancel_call,
                   enqueue_height, submit_count, confirmed, failed, cancelled,
                   rejected>>

\* ---------------------------------------------------------- specification
Next ==
    \/ UpdateCurrentBlock
    \/ ScheduleAdd
    \/ ScheduleInsert
    \/ CancelRemoveQueue
    \/ CancelRemovePending
    \/ Tick
    \/ GetNextNone
    \/ GetNextDue
    \/ GetNextNotDue
    \/ ExecuteOk
    \/ ExecuteErrRetry
    \/ ExecuteErrFinal
    \/ RequeueLater

Spec == Init /\ [][Next]_vars

\* ------------------------------------ the execution task left to its tick
\* schedule_transaction called while the execution task waits for its
\* interval: no enqueue runs while a tick is in progress.
ScheduleAddBetweenTicks ==
    /\ task_pc = "sleep"
    /\ ScheduleAdd

\* A step of the spawned execution task inside one tick (lines 212-246).
TaskStep ==
    \/ GetNextNone
    \/ GetNextDue
    \/ GetNextNotDue
    \/ ExecuteOk
    \/ ExecuteErrRetry
    \/ ExecuteErrFinal
    \/ RequeueLater

NextTick ==
    \/ UpdateCurrentBlock
    \/ ScheduleAddBetweenTicks
    \/ ScheduleInsert
    \/ CancelRemoveQueue
    \/ CancelRemovePending
    \/ Tick
    \/ GetNextNone
    \/ GetNextDue
    \/ GetNextNotDue
    \/ ExecuteOk
    \/ ExecuteErrRetry
    \/ ExecuteErrFinal
    \/ RequeueLater

\* The task is spawned once (line 201) and the runtime keeps running it: a
\* lock it waits for is released and a submission it awaits returns, so a
\* step of the task that stays possible is taken.
SpecTick == Init /\ [][NextTick]_vars /\ WF_vars(TaskStep)

\* ============================================================ LoadBalancer
\* SameBlockExecutor::new with nothing scheduled: the scheduler standing
\* still, its tracker having last stored the slot `block`.
ExecIdleAt(block) ==
    /\ current_block = block
    /\ queue = <<>>
    /\ max_queue_size = 1
    /\ pending_transactions = {}
    /\ next_signature = 1
    /\ schedule_calls = {}
    /\ cancel_call = NoCall
    /\ task_pc = "sleep"
    /\ task_current_block = 0
    /\ task_pending_tx = NoTx
    /\ enqueue_height = [s \in Sigs |-> 0]
    /\ submit_count = [s \in Sigs |-> 0]
    /\ tick_submits = [s \in Sigs |-> 0]
    /\ confirmed = {}
    /\ failed = {}
    /\ cancelled = {}
    /\ rejected = {}

ExecIdle == ExecIdleAt(0)

ConnIds == 1..MaxConnId

\* The ids in the balancer's vector.
LbIds(conns) == {conns[i].id : i \in 1..Len(conns)}

\* The healthy list without the is_healthy filter; C16 must fail on it.
HealthyConnectionsUnfiltered(conns) == conns

\* Lines 320-323: the connections that are flagged healthy, in vector order.
HealthyConnections(conns) == SelectSeq(conns, LAMBDA c : c.is_healthy)

\* get_next_connection that never moves past the first healthy connection;
\* C30 must fail on it.
NextIndexStuck(index) == 0

\* Line 331: the position current_index selects, before the modulo.
NextIndex(index) == index

\* get_next_connection using the index after its increment; C17 must fail on it.
GetNextConnectionIncrementFirst(conns, index) ==
    LET healthy == HealthyConnections(conns)
    IN  IF Len(healthy) = 0
        THEN None
        ELSE Some(healthy[((index + 1) % Len(healthy)) + 1].id)

\* Lines 320-333: the value get_next_connection returns (the vector is
\* indexed from 0 in the source, from 1 here).
GetNextConnection(conns, index) ==
    LET healthy == HealthyConnections(conns)
    IN  IF Len(healthy) = 0
        THEN None
        ELSE Some(healthy[(NextIndex(index) % Len(healthy)) + 1].id)

\* update_connection_health that registers an id it does not find; C40 must
\* fail on it.
UpdateConnectionHealthAddsUnknown(conns, id, is_healthy) ==
    IF id \in LbIds(conns)
    THEN LET first == CHOOSE i \in 1..Len(conns) :
                        /\ conns[i].id = id
                        /\ \A j \in 1..(i - 1) : conns[j].id # id
         IN  [conns EXCEPT ![first].is_healthy = is_healthy]
    ELSE Append(conns, [id |-> id, is_healthy |-> is_healthy])

\* Lines 337-339: set the flag of the first connection with the id, if any.
UpdateConnectionHealth(conns, id, is_healthy) ==
    IF id \in LbIds(conns)
    THEN LET first == CHOOSE i \in 1..Len(conns) :
                        /\ conns[i].id = id
                        /\ \A j \in 1..(i - 1) : conns[j].id # id
         IN  [conns EXCEPT ![first].is_healthy = is_healthy]
    ELSE conns

\* add_connection(id, weight, is_healthy): push.  The weight is never read
\* and is left out.  Callers give each connection its own id.
LbAddConnection ==
    /\ Len(lb_connections) < MaxConnId
    /\ \E id \in ConnIds \ LbIds(lb_connections), is_healthy \in BOOLEAN :
         lb_connections' = Append(lb_connections,
                                  [id |-> id, is_healthy |-> is_healthy])
    /\ lb_since_change' = 0
    /\ lb_before_change' = lb_connections
    /\ lb_history' = <<>>
    /\ UNCHANGED <<execVars, poolVars, anchorVars, streamVars, lb_current_index, lb_returned>>

\* update_connection_health(id, is_healthy), for ids added or not.
LbUpdateConnectionHealth ==
    /\ \E id \in ConnIds, is_healthy \in BOOLEAN :
         lb_connections' = UpdateConnectionHealth(lb_connections, id, is_healthy)
    /\ IF lb_connections' = lb_connections
       THEN UNCHANGED <<lb_since_change, lb_before_change, lb_history>>
       ELSE /\ lb_since_change' = 0
            /\ lb_before_change' = lb_connections
            /\ lb_history' = <<>>
    /\ UNCHANGED <<execVars, poolVars, anchorVars, streamVars, lb_current_index, lb_returned>>

\* get_next_connection: None with no healthy connection (the index stays),
\* else the round-robin pick and current_index += 1.
LbGetNextConnection ==
    /\ lb_current_index < MaxLbCalls
    /\ lb_returned' = GetNextConnection(lb_connections, lb_current_index)
    /\ IF lb_returned'.some
       THEN /\ lb_current_index' = lb_current_index + 1
            /\ lb_since_change' = lb_since_change + 1
            /\ lb_history' = Append(lb_history, lb_returned'.value)
       ELSE UNCHANGED <<lb_current_index, lb_since_change, lb_history>>
    /\ UNCHANGED <<execVars, poolVars, anchorVars, streamVars, lb_connections, lb_before_change>>

InitLb == ExecIdle /\ PoolIdle /\ LbIdle /\ AnchorIdle /\ StreamIdle

NextLb ==
    \/ LbAddConnection
    \/ LbUpdateConnectionHealth
    \/ LbGetNextConnection

SpecLb == InitLb /\ [][NextLb]_vars

\* ============================================================= GrpcManager
\* The configured endpoints have distinct URLs.  auth_token, priority and
\* weight are never read by the operations below and are left out.
Urls == 1..MaxEndpoints

EndpointUrls(eps) == {eps[i].url : i \in 1..Len(eps)}

\* The vectors GrpcManager::new may be given.
EndpointLists ==
    {eps \in UNION {[1..n -> [url : Urls, enabled : BOOLEAN]] : n \in 0..MaxEndpoints} :
       \A i, j \in 1..Len(eps) : eps[i].url = eps[j].url => i = j}

\* create_connection returning Ok at time t (the client is left out).
CreateConnection(endpoint, connection_id, t) ==
    [endpoint |-> endpoint, last_health_check |-> t, is_healthy |-> TRUE,
     connection_id |-> connection_id]

\* HashMap::insert and HashMap::remove.
MapInsert(map, key, value) ==
    [k \in DOMAIN map \cup {key} |-> IF k = key THEN value ELSE map[k]]

MapRemove(map, key) == [k \in DOMAIN map \ {key} |-> map[k]]

\* Vec index (from 0) of the first endpoint with the URL: iter().position().
Position(eps, url) ==
    IF url \in EndpointUrls(eps)
    THEN Some((CHOOSE i \in 1..Len(eps) :
                 /\ eps[i].url = url
                 /\ \A j \in 1..(i - 1) : eps[j].url # url) - 1)
    ELSE None

\* Vec::remove(index), index from 0: later elements move down by one.
VecRemove(eps, index) ==
    [i \in 1..(Len(eps) - 1) |-> IF i <= index THEN eps[i] ELSE eps[i + 1]]

\* The staleness test with >= for >; C15 must fail on it.
IsStaleAtThreshold(connection, t) ==
    t - connection.last_health_check >= FailoverThreshold

\* Line 128: last_health_check.elapsed() > failover_threshold.
IsStale(connection, t) ==
    t - connection.last_health_check > FailoverThreshold

\* initialize(): every enabled endpoint is tried; those of the indices in
\* `ok` connect and are inserted under their index.  With no connection at
\* all the call fails before the health check task is spawned.  The inserts
\* of one call are taken together.
Initialize ==
    /\ \E ok \in SUBSET {i \in 0..(Len(endpoints) - 1) : endpoints[i + 1].enabled} :
         /\ connections' =
              [k \in DOMAIN connections \cup ok |->
                 IF k \in ok
                 THEN CreateConnection(endpoints[k + 1], k, now)
                 ELSE connections[k]]
         /\ pool_last' = [op |-> "initialize", connected |-> ok,
                          err |-> (DOMAIN connections' = {})]
    /\ health_task' = (health_task \/ DOMAIN connections' # {})
    /\ UNCHANGED <<execVars, lbVars, anchorVars, streamVars, endpoints, now>>

\* add_endpoint(endpoint): the id is the vector's length before the push;
\* the endpoint is pushed (line 231) before the connection is tried, whether
\* or not it succeeds and whether or not the endpoint is enabled; the call
\* returns the connection's error, if any.
AddEndpoint ==
    /\ Len(endpoints) < MaxEndpoints
    /\ \E url \in Urls \ EndpointUrls(endpoints), enabled, ok \in BOOLEAN :
         LET endpoint == [url |-> url, enabled |-> enabled]
             connection_id == Len(endpoints)
         IN  /\ endpoints' = Append(endpoints, endpoint)
             /\ connections' =
                  IF ok
                  THEN MapInsert(connections, connection_id,
                                 CreateConnection(endpoint, connection_id, now))
                  ELSE connections
             /\ pool_last' = [op |-> "add_endpoint", err |-> ~ok]
    /\ UNCHANGED <<execVars, lbVars, anchorVars, streamVars, now, health_task>>

\* remove_endpoint(url), for URLs configured or not.
RemoveEndpoint ==
    /\ \E url \in Urls :
         LET index == Position(endpoints, url)
         IN  IF index.some
             THEN /\ endpoints' = VecRemove(endpoints, index.value)
                  /\ connections' = MapRemove(connections, index.value)
             ELSE UNCHANGED <<endpoints, connections>>
    /\ pool_last' = [op |-> "remove_endpoint"]
    /\ UNCHANGED <<execVars, lbVars, anchorVars, streamVars, now, health_task>>

\* to_remove filled with the stale connections; C22 must fail on it.
ToRemoveStale(conns, t) == {k \in DOMAIN conns : IsStale(conns[k], t)}

\* Lines 124-137: to_remove is created empty and nothing is pushed to it.
ToRemove(conns, t) == {}

\* One round of the health check loop (lines 121-137).
HealthCheck ==
    /\ health_task
    /\ connections' =
         [k \in DOMAIN connections \ ToRemove(connections, now) |->
            IF IsStale(connections[k], now)
            THEN [connections[k] EXCEPT !.is_healthy = FALSE]
            ELSE connections[k]]
    /\ pool_last' = [op |-> "health_check"]
    /\ UNCHANGED <<execVars, lbVars, anchorVars, streamVars, endpoints, now, health_task>>

\* Time passes; the clock is read at multiples of the health check interval.
AdvanceClock ==
    /\ now + HealthCheckInterval <= MaxTime
    /\ now' = now + HealthCheckInterval
    /\ pool_last' = [op |-> "clock"]
    /\ UNCHANGED <<execVars, lbVars, anchorVars, streamVars, endpoints, connections, health_task>>

InitPool ==
    /\ ExecIdle
    /\ LbIdle
    /\ AnchorIdle
    /\ StreamIdle
    /\ endpoints \in EndpointLists
    /\ connections = <<>>
    /\ now = 0
    /\ health_task = FALSE
    /\ pool_last = [op |-> "new"]

NextPool ==
    \/ Initialize
    \/ AddEndpoint
    \/ RemoveEndpoint
    \/ HealthCheck
    \/ AdvanceClock

SpecPool == InitPool /\ [][NextPool]_vars

\* ================================================ BlockTracker's hash cache
\* Result<T>: Ok(value) and Err(SniperError::<error>(message)).
Ok(value) == [ok |-> TRUE, value |-> value]
Err(error, message) == [ok |-> FALSE, error |-> error, message |-> message]

\* The hash of the block at a slot.
BlockHash(slot) == [hash_of |-> slot]

\* What rpc_client.get_block_hash_with_commitment(slot, ..) may answer when
\* the node is at `height`: the hash of a slot it has reached, no hash for a
\* slot it has not reached, or a failure of the request in either case.
RpcGetBlockHash(slot, height) ==
    {IF slot <= height THEN Some(BlockHash(slot)) ELSE None, [failed |-> TRUE]}

\* Lines 90-106: what get_block_hash makes of the node's answer.
GetBlockHashResult(answer) ==
    IF answer = None
    THEN Err("SolanaClient", "Block hash not found")
    ELSE IF answer = [failed |-> TRUE]
    THEN Err("SolanaClient", "Failed to get block hash")
    ELSE Ok(answer.value)

\* The eviction choosing the highest slot; C28 must fail on it.
OldestKeyIsMax(cache) ==
    CHOOSE k \in DOMAIN cache : \A j \in DOMAIN cache : k >= j

\* Line 98: *cache.keys().min().unwrap().
OldestKey(cache) ==
    CHOOSE k \in DOMAIN cache : \A j \in DOMAIN cache : k <= j

\* Lines 93-100, under the write lock: insert, then drop the lowest slot if
\* the cache holds more than the limit.
CacheInsert(cache, slot) ==
    LET inserted == MapInsert(cache, slot, BlockHash(slot))
    IN  IF Cardinality(DOMAIN inserted) > CacheLimit
        THEN MapRemove(inserted, OldestKey(inserted))
        ELSE inserted

\* Slots get_block_hash is asked for directly: slot 0, the slots around the
\* cache limit and one slot the chain never gets to.
AnchorSlots == {0} \cup ((CacheLimit - 1)..(MaxSlot + 1))

\* The node produces a block.
ChainAdvance ==
    /\ chain_height < MaxSlot
    /\ chain_height' = chain_height + 1
    /\ UNCHANGED <<execVars, poolVars, lbVars, streamVars, block_hash_cache,
                   anchor_fetched, anchor_last>>

\* Lines 82-87: get_block_hash(slot) finding the slot in the cache.
GetBlockHashHit ==
    /\ \E slot \in AnchorSlots :
         /\ slot \in DOMAIN block_hash_cache
         /\ anchor_last' = [op |-> "get_block_hash", slot |-> slot,
                            answer |-> [cached |-> TRUE],
                            result |-> Ok(block_hash_cache[slot])]
    /\ UNCHANGED <<execVars, poolVars, lbVars, streamVars, block_hash_cache,
                   chain_height, anchor_fetched>>

\* Lines 82-90 and 104-105: get_block_hash(slot) missing the cache and
\* asking the node.  With a hash the call goes on to the write lock; without
\* one it returns the error.
GetBlockHashMiss ==
    /\ \E slot \in AnchorSlots :
         /\ slot \notin DOMAIN block_hash_cache
         /\ \E answer \in RpcGetBlockHash(slot, chain_height) :
              LET result == GetBlockHashResult(answer)
              IN  IF result.ok
                  THEN /\ Cardinality(anchor_fetched) < MaxAnchorCalls
                       /\ anchor_fetched' = anchor_fetched \cup {slot}
                       /\ UNCHANGED anchor_last
                  ELSE /\ anchor_last' = [op |-> "get_block_hash", slot |-> slot,
                                          answer |-> answer, result |-> result]
                       /\ UNCHANGED anchor_fetched
    /\ UNCHANGED <<execVars, poolVars, lbVars, streamVars, block_hash_cache,
                   chain_height>>

\* Lines 93-102: the insert under the write lock, and Ok(hash).
GetBlockHashStore ==
    /\ \E slot \in anchor_fetched :
         /\ block_hash_cache' = CacheInsert(block_hash_cache, slot)
         /\ anchor_fetched' = anchor_fetched \ {slot}
         /\ anchor_last' = [op |-> "get_block_hash", slot |-> slot,
                            answer |-> Some(BlockHash(slot)),
                            result |-> Ok(BlockHash(slot))]
    /\ UNCHANGED <<execVars, poolVars, lbVars, streamVars, chain_height>>

\* schedule_transaction, lines 268-272: the target block is the tracker's
\* current block plus the offset, and a get_block_hash error is returned to
\* the caller before anything is queued or registered.  (With a hash the
\* call goes on as ScheduleAdd.)
ScheduleGetBlockHashErr ==
    /\ \E offset \in Offsets :
         LET target_block == current_block + offset
         IN  /\ target_block \notin DOMAIN block_hash_cache
             /\ \E answer \in RpcGetBlockHash(target_block, chain_height) :
                  LET result == GetBlockHashResult(answer)
                  IN  /\ ~result.ok
                      /\ anchor_last' = [op |-> "schedule_transaction",
                                         slot |-> target_block,
                                         answer |-> answer,
                                         result |-> result]
    /\ UNCHANGED <<execVars, poolVars, lbVars, streamVars, block_hash_cache,
                   chain_height, anchor_fetched>>

\* The tracker after the slots 1..n were fetched one by one, the node being
\* at slot n and the tracker having stored that slot.
InitAnchor ==
    /\ \E n \in {CacheLimit - 1, CacheLimit} :
         /\ ExecIdleAt(n)
         /\ block_hash_cache = [slot \in 1..n |-> BlockHash(slot)]
         /\ chain_height = n
    /\ anchor_fetched = {}
    /\ anchor_last = [op |-> "new", answer |-> [cached |-> FALSE]]
    /\ PoolIdle
    /\ LbIdle
    /\ StreamIdle

NextAnchor ==
    \/ ChainAdvance
    \/ GetBlockHashHit
    \/ GetBlockHashMiss
    \/ GetBlockHashStore
    \/ ScheduleGetBlockHashErr

SpecAnchor == InitAnchor /\ [][NextAnchor]_vars

\* ============================================= GrpcManager's subscriptions
\* The connections flagged healthy; the healthy ones that the mutated
\* subscribe() considers (all of them); C23 must fail on the latter.
HealthyIdsUnfiltered(conns) == DOMAIN conns

\* Line 179: .filter(|conn| conn.is_healthy).
HealthyIds(conns) == {k \in DOMAIN conns : conns[k].is_healthy}

\* Lines 177-180: the connections min_by_key may return, the healthy ones
\* of the lowest priority number (which of several depends on the map's
\* iteration order).
BestConnections(conns) ==
    {k \in HealthyIds(conns) :
       \A j \in HealthyIds(conns) :
         conns[k].endpoint.priority <= conns[j].endpoint.priority}

\* tx_sender.send putting the value before the ones already sent; C26 must
\* fail on it.
ChannelSendFirst(log, value) == <<value>> \o log

\* Line 190: tx_sender.send(response); the channel keeps the send order.
ChannelSend(log, value) == Append(log, value)

\* A receiver that is more than the channel's capacity behind has lost
\* values; its next read reports that instead of a value.  (It takes more
\* values than are sent here.)
Lagged(receiver) == Len(broadcast_log) - receiver.next > ChannelCapacity

\* The values a receiver has got: those sent between its creation and its
\* read position.
Got(receiver) == SubSeq(broadcast_log, receiver.start + 1, receiver.next)

\* subscribe(request), lines 173-207: with a healthy connection a task is
\* spawned on the best one and Ok(()) returned; with none, the error.
Subscribe ==
    /\ IF BestConnections(connections) # {}
       THEN /\ Len(subscriptions) < MaxSubscriptions
            /\ \E k \in BestConnections(connections) :
                 /\ subscriptions' =
                      Append(subscriptions,
                             [connection_id |-> connections[k].connection_id,
                              state |-> "requesting", read |-> 0,
                              last_update |-> None])
                 /\ subscribe_last' = [op |-> "subscribe", result |-> Ok(k),
                                       healthy |-> HealthyIds(connections)]
       ELSE /\ subscribe_last' =
                 [op |-> "subscribe",
                  result |-> Err("Grpc", "No healthy connections available"),
                  healthy |-> HealthyIds(connections)]
            /\ UNCHANGED subscriptions
    /\ UNCHANGED <<execVars, poolVars, lbVars, anchorVars, broadcast_log, receivers>>

\* Line 187-188: client.subscribe(..) returns the stream.
SubscribeRequestOk ==
    /\ \E i \in 1..Len(subscriptions) :
         /\ subscriptions[i].state = "requesting"
         /\ subscriptions' = [subscriptions EXCEPT ![i].state = "streaming"]
    /\ UNCHANGED <<execVars, poolVars, lbVars, anchorVars, broadcast_log, receivers,
                   subscribe_last>>

\* Lines 195-197: client.subscribe(..) fails; the error is logged and the
\* task ends.
SubscribeRequestErr ==
    /\ \E i \in 1..Len(subscriptions) :
         /\ subscriptions[i].state = "requesting"
         /\ subscriptions' = [subscriptions EXCEPT ![i].state = "failed"]
    /\ UNCHANGED <<execVars, poolVars, lbVars, anchorVars, broadcast_log, receivers,
                   subscribe_last>>

\* Lines 189-193: the stream yields its next update and the task sends it;
\* send fails, and the update is lost, when the channel has no receiver.
\* The task holds a clone of the client only: the connection in the pool,
\* its last_health_check included, is not touched.
StreamMessage ==
    /\ \E i \in 1..Len(subscriptions) :
         /\ subscriptions[i].state = "streaming"
         /\ subscriptions[i].read < MaxUpdates
         /\ subscriptions' = [subscriptions EXCEPT ![i].read = @ + 1,
                                                  ![i].last_update = Some(now)]
         /\ broadcast_log' =
              IF receivers # <<>>
              THEN ChannelSend(broadcast_log,
                               [stream |-> i,
                                connection_id |-> subscriptions[i].connection_id,
                                update |-> subscriptions[i].read + 1])
              ELSE broadcast_log
    /\ UNCHANGED <<execVars, poolVars, lbVars, anchorVars, receivers, subscribe_last>>

\* Line 189: stream.message() fails; unwrap_or(None) ends the loop and the
\* task.
StreamErr ==
    /\ \E i \in 1..Len(subscriptions) :
         /\ subscriptions[i].state = "streaming"
         /\ subscriptions' = [subscriptions EXCEPT ![i].state = "failed"]
    /\ UNCHANGED <<execVars, poolVars, lbVars, anchorVars, broadcast_log, receivers,
                   subscribe_last>>

\* Line 189: the stream is over (Ok(None)); the task ends.
StreamEnd ==
    /\ \E i \in 1..Len(subscriptions) :
         /\ subscriptions[i].state = "streaming"
         /\ subscriptions' = [subscriptions EXCEPT ![i].state = "ended"]
    /\ UNCHANGED <<execVars, poolVars, lbVars, anchorVars, broadcast_log, receivers,
                   subscribe_last>>

\* get_message_receiver(): a receiver of the values sent from now on.
GetMessageReceiver ==
    /\ Len(receivers) < MaxReceivers
    /\ receivers' = Append(receivers, [start |-> Len(broadcast_log),
                                       next |-> Len(broadcast_log)])
    /\ UNCHANGED <<execVars, poolVars, lbVars, anchorVars, subscriptions,
                   broadcast_log, subscribe_last>>

\* A receiver reads its next value.
Recv ==
    /\ \E r \in 1..Len(receivers) :
         /\ receivers[r].next < Len(broadcast_log)
         /\ ~Lagged(receivers[r])
         /\ receivers' = [receivers EXCEPT ![r].next = @ + 1]
    /\ UNCHANGED <<execVars, poolVars, lbVars, anchorVars, subscriptions,
                   broadcast_log, subscribe_last>>

\* The manager after initialize() connected its endpoints, some at time 0
\* and the others one health check interval later.
InitStream ==
    /\ ExecIdle
    /\ LbIdle
    /\ AnchorIdle
    /\ StreamIdle
    /\ \E n \in 1..MaxEndpoints :
         \E priority \in [1..n -> 1..MaxPriority],
            connected_at \in [1..n -> {0, HealthCheckInterval}] :
           /\ endpoints = [i \in 1..n |->
                             [url |-> i, enabled |-> TRUE, priority |-> priority[i]]]
           /\ connections = [k \in 0..(n - 1) |->
                               CreateConnection(endpoints[k + 1], k,
                                                connected_at[k + 1])]
    /\ now = HealthCheckInterval
    /\ health_task = TRUE
    /\ pool_last = [op |-> "initialize", connected |-> DOMAIN connections,
                    err |-> FALSE]

NextStream ==
    \/ Subscribe
    \/ SubscribeRequestOk
    \/ SubscribeRequestErr
    \/ StreamMessage
    \/ StreamErr
    \/ StreamEnd
    \/ GetMessageReceiver
    \/ Recv
    \/ HealthCheck
    \/ AdvanceClock

SpecStream == InitStream /\ [][NextStream]_vars

\* ------------------------------------------------------------- properties
\* Steps of the execution task, as seen from outside.
TakesDue == task_pc = "loop" /\ task_pc' = "exec"
TakesNotDue == task_pc = "loop" /\ task_pc' = "requeue"
EndsTick == task_pc # "sleep" /\ task_pc' = "sleep"
Retries == /\ task_pc = "exec"
           /\ task_pc' = "loop"
           /\ confirmed' = confirmed
           /\ failed' = failed
Confirms(s) == s \notin confirmed /\ s \in confirmed'
CancelReturns == cancel_call # NoCall /\ cancel_call' = NoCall
Schedules == next_signature' # next_signature

\* The queue entry of a signature that is queued.
Entry(q, s) == q[CHOOSE i \in 1..Len(q) : q[i].signature = s]

\* The documented ordering key: priority descending, target_block ascending,
\* created_at ascending.
KeyBefore(x, y) ==
    \/ x.priority > y.priority
    \/ x.priority = y.priority /\ x.target_block < y.target_block
    \/ /\ x.priority = y.priority
       /\ x.target_block = y.target_block
       /\ x.created_at < y.created_at

\* C1: no execution id is both Cancelled (a cancel call for it returned true)
\* and Confirmed (a submission of it succeeded).
C1_NeverCancelledAndConfirmed == cancelled \cap confirmed = {}

\* C2: a cancel call made while the submission of its id is in flight returns
\* false, so the id never becomes Cancelled through it and its final state is
\* the outcome of the submission.
C2_CancelInFlightReturnsFalse ==
    [][(CancelReturns /\ cancel_call.in_flight)
         => /\ ~CancelResult(cancel_call, pending_transactions)
            /\ cancelled' = cancelled]_vars

\* C3: after a cancel of an execution that had not been handed to the
\* submitter returned true, no submission of that id is ever started.
C3_CancelledNeverSubmitted ==
    [][\A s \in Sigs :
         (s \in cancelled /\ submit_count[s] = 0) => submit_count'[s] = 0]_vars

\* C4: the queue never holds more than max_queue_size items, and an add to a
\* full queue (by schedule_transaction or by the task's re-queue) leaves the
\* queue as it was; the schedule call gets the queue-full error.
C4_QueueNeverExceedsCapacity ==
    /\ [](Len(queue) <= max_queue_size)
    /\ [][(Len(queue) >= max_queue_size /\ (Schedules \/ Retries \/ EndsTick))
            => /\ queue' = queue
               /\ Schedules => /\ next_signature \in rejected'
                               /\ next_signature \notin schedule_calls']_vars

\* C4 witness: a schedule call was rejected and the queue is still full.
C4_Witness == rejected # {} /\ Len(queue) = max_queue_size

\* C5: with A(Critical, target 10) and B(Low, target 5) both enqueued below
\* height 5, a tick that reads a height of 10 or more does not hand B to the
\* submitter while A is still queued and was never submitted.
C5_CriticalBeforeLow ==
    [][\A a, b \in Sigs :
         ~ /\ TakesDue
           /\ task_current_block >= 10
           /\ task_pending_tx'.signature = b
           /\ task_pending_tx'.priority = Low
           /\ task_pending_tx'.target_block = 5
           /\ task_pending_tx'.retry_count = 0
           /\ enqueue_height[b] < 5
           /\ a \in QueueSigs(queue')
           /\ Entry(queue', a).priority = Critical
           /\ Entry(queue', a).target_block = 10
           /\ enqueue_height[a] < 5
           /\ submit_count[a] = 0]_vars

\* C6: the task takes due items in the order of the key: the item it hands to
\* the submitter comes before every due item it leaves in the queue.
C6_TakenInKeyOrder ==
    [][TakesDue =>
         \A i \in 1..Len(queue') :
           IsDue(queue'[i], task_current_block)
             => KeyBefore(task_pending_tx', queue'[i])]_vars

\* C7: in a tick, an item with a future target block is never popped, the due
\* item submitted has the highest priority among the due items, and the tick
\* does not end while a due item is queued.
C7_DueSubmittedFutureLeft ==
    [][/\ ~TakesNotDue
       /\ TakesDue =>
            \A i \in 1..Len(queue') :
              IsDue(queue'[i], task_current_block)
                => queue'[i].priority <= task_pending_tx'.priority
       /\ EndsTick =>
            \A i \in 1..Len(queue') :
              ~IsDue(queue'[i], task_current_block)]_vars

\* C8 as stated: an execution confirmed by its third submission, after two
\* failed ones, has an attempt count of 3.
C8_ThirdAttemptCountsThree ==
    [][\A s \in Sigs :
         (Confirms(s) /\ submit_count[s] = MaxRetries)
           => task_pending_tx.retry_count = MaxRetries]_vars

\* C8 as amended: an execution confirmed by its third submission, after two
\* failed ones, has a retry count of 2: the count is of the failed
\* submissions only.
C8_ThirdAttemptCountsTwo ==
    [][\A s \in Sigs :
         (Confirms(s) /\ submit_count[s] = MaxRetries)
           => /\ task_pending_tx.signature = s
              /\ task_pending_tx.retry_count = MaxRetries - 1]_vars

\* C8 witness: an execution was confirmed by its third submission.
C8_Witness == \E s \in confirmed : submit_count[s] = MaxRetries

\* C9: a retry re-queues the execution with its priority raised by exactly one
\* level, Critical staying Critical.
C9_PriorityRaisedOneLevel ==
    [][(Retries /\ task_pending_tx.signature \in QueueSigs(queue'))
         => Entry(queue', task_pending_tx.signature).priority
              = IF task_pending_tx.priority = Critical
                THEN Critical
                ELSE task_pending_tx.priority + 1]_vars

\* C10: an execution is submitted at most max_retries times; once it failed
\* for the last time it is neither queued nor held by the task, and it is
\* never submitted again.
C10_RetryBounded ==
    /\ [](\A s \in Sigs :
            /\ submit_count[s] <= MaxRetries
            /\ s \in failed => /\ submit_count[s] = MaxRetries
                               /\ s \notin QueueSigs(queue)
                               /\ task_pending_tx.signature # s)
    /\ [][\A s \in Sigs :
            s \in failed => submit_count'[s] = submit_count[s]]_vars

\* C10 witness: an execution failed for the last time.
C10_Witness == failed # {}

\* C11: an execution's state moves only along Queued -> Submitted ->
\* {Confirmed | Failed} or Queued -> Cancelled: once it was handed to the
\* submitter it is never queued again, Confirmed and Failed are final, and a
\* Cancelled id was never submitted and is not Confirmed.
C11_StatesMonotone ==
    [][\A s \in Sigs :
         /\ submit_count[s] > 0 => s \notin QueueSigs(queue')
         /\ s \in confirmed \cup failed
              => /\ submit_count'[s] = submit_count[s]
                 /\ s \notin cancelled'
         /\ s \in cancelled' => /\ submit_count'[s] = 0
                                /\ s \notin confirmed'
                                /\ s \notin failed']_vars

\* C12: once a submission of an execution succeeded, the execution is not in
\* the queue, is not held by the task, and is never submitted again.
C12_NoSubmitAfterSuccess ==
    /\ [](\A s \in confirmed :
            /\ s \notin QueueSigs(queue)
            /\ task_pending_tx.signature # s)
    /\ [][\A s \in confirmed : submit_count'[s] = submit_count[s]]_vars

\* C12 witness: an execution was confirmed and the task went on to pop again.
C12_Witness ==
    /\ confirmed # {}
    /\ task_pc \in {"exec", "requeue"}

\* C13: a cancel call for an execution that is already Confirmed or Failed
\* returns false and changes neither the queue nor the registry.
C13_CancelDoneIsNoOp ==
    [][/\ (cancel_call = NoCall /\ cancel_call' # NoCall /\ cancel_call'.done)
            => queue' = queue
       /\ (CancelReturns /\ cancel_call.done)
            => /\ ~CancelResult(cancel_call, pending_transactions)
               /\ pending_transactions' = pending_transactions]_vars

\* C14: the stored current block never decreases: a poll that returns a lower
\* slot leaves it unchanged.
C14_CurrentBlockNonDecreasing ==
    [][current_block' >= current_block]_vars

\* C15: after a run of the health check loop a connection is flagged
\* unhealthy exactly when more than failover_threshold has passed since its
\* last_health_check.
C15_UnhealthyIffStale ==
    pool_last.op = "health_check" =>
      \A k \in DOMAIN connections :
        ~connections[k].is_healthy
          <=> (now - connections[k].last_health_check > FailoverThreshold)

\* C15 witness: a run has left one connection unhealthy and another, exactly
\* failover_threshold old, healthy.
C15_Witness ==
    /\ pool_last.op = "health_check"
    /\ \E k, j \in DOMAIN connections :
         /\ ~connections[k].is_healthy
         /\ connections[j].is_healthy
         /\ now - connections[j].last_health_check = FailoverThreshold

\* A get_next_connection call that returned a connection.
LbPicks == lb_current_index' # lb_current_index

\* The balancer of the round-robin example: 1, 2, 3 added in this order.
LbExample(h1, h2, h3) ==
    <<[id |-> 1, is_healthy |-> h1], [id |-> 2, is_healthy |-> h2],
      [id |-> 3, is_healthy |-> h3]>>

C17_RoundRobinRestarts ==
    [][LbPicks =>
         /\ (/\ lb_connections = LbExample(TRUE, TRUE, TRUE)
             /\ lb_current_index = lb_since_change)
              => lb_returned' = Some((lb_since_change % 3) + 1)
         /\ (/\ lb_connections = LbExample(TRUE, FALSE, TRUE)
             /\ lb_before_change = LbExample(TRUE, TRUE, TRUE))
              => lb_returned' = Some(IF lb_since_change % 2 = 0 THEN 1 ELSE 3)]_vars

\* C17 as amended: with 1, 2, 3 healthy the calls yield 1, 2, 3, 1, 2, 3, ...;
\* once 2 is marked unhealthy the calls that follow alternate between 1 and 3,
\* beginning with 1 if an even number of calls was made before and with 3 if
\* an odd number was.
C17_RoundRobinContinues ==
    [][LbPicks =>
         /\ (/\ lb_connections = LbExample(TRUE, TRUE, TRUE)
             /\ lb_current_index = lb_since_change)
              => lb_returned' = Some((lb_since_change % 3) + 1)
         /\ (/\ lb_connections = LbExample(TRUE, FALSE, TRUE)
             /\ lb_before_change = LbExample(TRUE, TRUE, TRUE))
              => lb_returned' =
                   Some(IF (lb_current_index - lb_since_change) % 2 = 0
                        THEN (IF lb_since_change % 2 = 0 THEN 1 ELSE 3)
                        ELSE (IF lb_since_change % 2 = 0 THEN 3 ELSE 1))]_vars

\* C17 witness: 2 was marked unhealthy after an odd number of calls and two
\* more calls were made.
C17_Witness ==
    /\ lb_connections = LbExample(TRUE, FALSE, TRUE)
    /\ lb_before_change = LbExample(TRUE, TRUE, TRUE)
    /\ lb_since_change = 2
    /\ lb_current_index = 3
    /\ lb_returned = Some(1)

\* The connections whose endpoint has the URL.
ConnectionsOf(url) ==
    {k \in DOMAIN connections : connections[k].endpoint.url = url}

\* C18: every endpoint has at most one connection, and every connection
\* belongs to exactly one configured endpoint.
C18_OneConnectionPerEndpoint ==
    /\ \A i \in 1..Len(endpoints) :
         Cardinality(ConnectionsOf(endpoints[i].url)) <= 1
    /\ \A k \in DOMAIN connections :
         Cardinality({i \in 1..Len(endpoints) :
                        endpoints[i].url = connections[k].endpoint.url}) = 1

\* A remove_endpoint call that found its endpoint, and an add_endpoint call.
RemovesEndpoint == Len(endpoints') < Len(endpoints)
AddsEndpoint == Len(endpoints') > Len(endpoints)

\* C19: remove_endpoint(url) removes the connections of the endpoint with
\* that URL and leaves every other connection as it was.
C19_RemovesOwnConnection ==
    [][RemovesEndpoint =>
         \A url \in EndpointUrls(endpoints) \ EndpointUrls(endpoints') :
           /\ DOMAIN connections' = DOMAIN connections \ ConnectionsOf(url)
           /\ \A k \in DOMAIN connections' : connections'[k] = connections[k]]_vars

\* C20: add_endpoint stores the new connection under an id that no existing
\* connection uses: every connection there was is still there, unchanged.
C20_AddUsesFreshId ==
    [][AddsEndpoint =>
         \A k \in DOMAIN connections :
           /\ k \in DOMAIN connections'
           /\ connections'[k] = connections[k]]_vars

\* C21: initialize() returns the no-connection error exactly when none of
\* the enabled endpoints connected, and after a successful call the pool
\* holds exactly the enabled endpoints that connected.
C21_InitializeFailsIffNoneConnects ==
    pool_last.op = "initialize" =>
      /\ pool_last.err <=> (pool_last.connected = {})
      /\ ~pool_last.err => DOMAIN connections = pool_last.connected

C30_EveryHealthyOncePerRound ==
    LET healthy == HealthyConnections(lb_connections)
        n == Len(healthy)
    IN  /\ n = 0 => lb_history = <<>>
        /\ n > 0 =>
             \A j \in 1..(Len(lb_history) - n + 1) :
               \E r \in 0..(n - 1) :
                 \A k \in 0..(n - 1) :
                   lb_history[j + k] = healthy[((r + k) % n) + 1].id
        /\ (lb_history # <<>> /\ lb_current_index = Len(lb_history))
             => lb_history[1] = healthy[1].id

\* C30 witness: two of three connections are healthy and three calls were
\* made since the last change, the first of them in the middle of a round.
C30_Witness ==
    /\ Len(lb_connections) = 3
    /\ Len(HealthyConnections(lb_connections)) = 2
    /\ Len(lb_history) = 3
    /\ lb_history[1] # HealthyConnections(lb_connections)[1].id

\* C27: for a slot the chain has not reached (the node has no hash for it)
\* get_block_hash does not return an error, and schedule_transaction does
\* not fail because of it.
C27_NotYetAvailableIsNoError ==
    anchor_last.answer = None => anchor_last.result.ok

\* C28: the cache never holds more than its limit of entries, and an insert
\* that takes it over the limit evicts the entry of the lowest slot and no
\* other.
C28_CacheBoundedEvictsLowest ==
    /\ [](Cardinality(DOMAIN block_hash_cache) <= CacheLimit)
    /\ [][\A slot \in anchor_fetched \ anchor_fetched' :
            LET inserted == DOMAIN block_hash_cache \cup {slot}
            IN  IF Cardinality(inserted) > CacheLimit
                THEN \E lowest \in inserted :
                       /\ \A j \in inserted : lowest <= j
                       /\ DOMAIN block_hash_cache' = inserted \ {lowest}
                ELSE DOMAIN block_hash_cache' = inserted]_vars

\* C28 witness: the cache is full, slot 1 was evicted from it and the slot
\* after the limit is in it.
C28_Witness ==
    /\ Cardinality(DOMAIN block_hash_cache) = CacheLimit
    /\ 1 \notin DOMAIN block_hash_cache
    /\ (CacheLimit + 1) \in DOMAIN block_hash_cache

\* C29: a schedule_transaction call that ends without having got the hash
\* of its target block ends as DeadlineExceeded.
C29_NoAnchorEndsDeadlineExceeded ==
    (anchor_last.op = "schedule_transaction" /\ anchor_last.answer = None)
      => anchor_last.result.error = "DeadlineExceeded"

\* C23: subscribe() spawns its task on a connection that is healthy at the
\* time of the call and whose priority number is the lowest among the healthy
\* ones; with no healthy connection it returns the error and spawns nothing.
C23_SubscribeUsesBestHealthy ==
    [][/\ Len(subscriptions') > Len(subscriptions) =>
            LET c == subscriptions'[Len(subscriptions')].connection_id
            IN  /\ c \in DOMAIN connections
                /\ connections[c].is_healthy
                /\ \A k \in DOMAIN connections :
                     connections[k].is_healthy =>
                       connections[c].endpoint.priority
                         <= connections[k].endpoint.priority
                /\ subscribe_last'.result.ok
       /\ subscribe_last' # subscribe_last =>
            IF \A k \in DOMAIN connections : ~connections[k].is_healthy
            THEN /\ ~subscribe_last'.result.ok
                 /\ subscriptions' = subscriptions
            ELSE subscribe_last'.result.ok]_vars

\* C23 witness: a task was spawned on a connection although another
\* connection, unhealthy at the time, has a lower priority number.
C23_Witness ==
    /\ subscribe_last.op = "subscribe"
    /\ subscribe_last.result.ok
    /\ \E k \in DOMAIN connections \ subscribe_last.healthy :
         /\ connections[k].endpoint.priority
              < connections[subscribe_last.result.value].endpoint.priority

\* C24: when the request or the stream of a subscription fails while another
\* connection is healthy, a subscription is started on that connection.
C24_FailoverToNextBest ==
    [][\A i \in 1..Len(subscriptions) :
         (/\ subscriptions[i].state # "failed"
          /\ subscriptions'[i].state = "failed"
          /\ \E k \in DOMAIN connections :
               /\ connections[k].is_healthy
               /\ k # subscriptions[i].connection_id)
           => /\ Len(subscriptions') > Len(subscriptions)
              /\ subscriptions'[Len(subscriptions')].connection_id
                   # subscriptions[i].connection_id]_vars

\* C26: the updates of one stream that a receiver gets are in the order the
\* stream produced them, none of them twice.
C26_StreamOrderKept ==
    \A r \in 1..Len(receivers) :
      LET got == Got(receivers[r])
      IN  \A a, b \in 1..Len(got) :
            (a < b /\ got[a].stream = got[b].stream)
              => got[a].update < got[b].update

\* C26 witness: a receiver got two updates of one stream with an update of
\* another stream between them.
C26_Witness ==
    \E r \in 1..Len(receivers) :
      LET got == Got(receivers[r])
      IN  /\ Len(got) >= 3
          /\ got[1].stream = got[3].stream
          /\ got[2].stream # got[1].stream

\* A get_next_connection call that can be seen in the state: it returned a
\* connection (the index moved) or its answer differs from the last one.
LbCalls ==
    \/ lb_current_index' # lb_current_index
    \/ lb_returned' # lb_returned

\* C40: get_next_connection returns None exactly when no registered
\* connection is flagged healthy, and update_connection_health for an id
\* that was never added changes nothing.
C40_NoneIffNoHealthyUnknownIdIgnored ==
    /\ [](/\ (GetNextConnection(lb_connections, lb_current_index) = None)
               <=> (\A i \in 1..Len(lb_connections) :
                      ~lb_connections[i].is_healthy)
          /\ \A id \in ConnIds \ LbIds(lb_connections), is_healthy \in BOOLEAN :
               UpdateConnectionHealth(lb_connections, id, is_healthy)
                 = lb_connections)
    /\ [][LbCalls =>
            ((lb_returned' = None)
               <=> (\A i \in 1..Len(lb_connections) :
                      ~lb_connections[i].is_healthy))]_vars

\* C40 witness: after a call that returned a connection, a call returned
\* None although connections are registered (none of them healthy), and an
\* id is left that was never added.
C40_Witness ==
    /\ lb_returned = None
    /\ lb_current_index > 0
    /\ lb_connections # <<>>
    /\ ConnIds \ LbIds(lb_connections) # {}

\* C36: when add_endpoint fails to connect it returns the error and leaves
\* the endpoint list and the connection pool exactly as they were.
C36_FailedAddChangesNothing ==
    [][(pool_last'.op = "add_endpoint" /\ pool_last'.err)
         => /\ endpoints' = endpoints
            /\ connections' = connections]_vars

\* C37: every connection the pool holds belongs to an endpoint whose enabled
\* flag is true.
C37_PoolHoldsEnabledOnly ==
    \A k \in DOMAIN connections : connections[k].endpoint.enabled

\* The stream of subscription i delivers an update in this step.
Delivers(i) ==
    /\ i \in 1..Len(subscriptions)
    /\ subscriptions'[i].read > subscriptions[i].read

\* A stream of connection k delivered an update less than the failover
\* threshold ago.
RecentlyUpdated(k) ==
    \E i \in 1..Len(subscriptions) :
      /\ subscriptions[i].connection_id = k
      /\ subscriptions[i].last_update.some
      /\ now - subscriptions[i].last_update.value < FailoverThreshold

\* C34: a connection's last-contact time is refreshed whenever its stream
\* delivers an update, so a connection whose stream delivered an update less
\* than failover_threshold ago is never flagged unhealthy.
C34_UpdatesKeepConnectionHealthy ==
    [][/\ \A i \in 1..Len(subscriptions) :
            Delivers(i) =>
              connections'[subscriptions[i].connection_id].last_health_check
                = now
       /\ \A k \in DOMAIN connections :
            (connections[k].is_healthy /\ ~connections'[k].is_healthy)
              => ~RecentlyUpdated(k)]_vars

\* C31: the execution task never calls execute_transaction for a transaction
\* whose target block is higher than the block the task read at the start
\* of the tick.
C31_NeverSubmittedBeforeTarget ==
    /\ [](task_pc = "exec"
            => task_pending_tx.target_block <= task_current_block)
    /\ [][\A s \in Sigs :
            submit_count'[s] > submit_count[s]
              => /\ task_pending_tx'.signature = s
                 /\ task_pending_tx'.target_block <= task_current_block]_vars

\* C31 witness: a submission is in flight for a transaction whose target is
\* exactly the block the tick read, while the tracker has moved on since.
C31_Witness ==
    /\ task_pc = "exec"
    /\ task_pending_tx.target_block = task_current_block
    /\ current_block > task_current_block

\* C35: a schedule_transaction call rejected by the full queue leaves the
\* registry as it was, and the registry never holds an entry for a
\* transaction the queue did not accept.
C35_RejectedNeverRegistered ==
    /\ [](rejected \cap (pending_transactions \cup schedule_calls) = {})
    /\ [][rejected' # rejected
            => pending_transactions' = pending_transactions]_vars

\* C35 witness: a call was rejected while the registry holds the entry of
\* an accepted transaction.
C35_Witness ==
    /\ rejected # {}
    /\ pending_transactions # {}

\* C39: the queue's vector is ordered by priority, highest first: no element
\* has a higher priority than an element before it.
C39_QueueSortedByPriority ==
    \A i, j \in 1..Len(queue) :
      i < j => queue[i].priority >= queue[j].priority

\* C39 witness: the queue holds a transaction put back for a retry in front
\* of one of lower priority.
C39_Witness ==
    /\ Len(queue) = 2
    /\ queue[1].retry_count > 0
    /\ queue[1].priority > queue[2].priority

\* The queue accepted the transaction of signature s.
Accepted(s) == s < next_signature /\ s \notin rejected

\* The transaction of signature s is in the queue, or in the hands of the
\* execution task between its pop and its re-add, or a cancel call took it
\* out of the queue and is about to return.
Held(s) ==
    \/ s \in QueueSigs(queue)
    \/ task_pending_tx # NoTx /\ task_pending_tx.signature = s
    \/ /\ cancel_call # NoCall
       /\ cancel_call.signature = s
       /\ cancel_call.removed_from_queue

\* C32: no accepted execution is silently lost: the task's re-add of a
\* popped transaction cannot fail, so every accepted transaction stays in
\* the queue (or with the task) until it is confirmed, has failed for good
\* or is cancelled.
C32_AcceptedNeverLost ==
    /\ [](\A s \in Sigs :
            Accepted(s) => Held(s) \/ s \in confirmed \cup failed \cup cancelled)
    /\ [][(task_pc \in {"exec", "requeue"} /\ task_pending_tx' = NoTx
             /\ task_pending_tx.signature \notin confirmed' \cup failed')
            => task_pending_tx.signature \in QueueSigs(queue')]_vars

\* No operation is in progress: no schedule_transaction or cancel_transaction
\* call is between its two steps and the execution task waits for its tick.
Quiescent ==
    /\ schedule_calls = {}
    /\ cancel_call = NoCall
    /\ task_pc = "sleep"

\* C33: whenever no operation is in progress, a signature is in the registry
\* exactly when it is in the queue, so the registry holds no entry of a
\* transaction that is confirmed or has failed for good.
C33_RegistryMatchesQueue ==
    Quiescent =>
      /\ pending_transactions = QueueSigs(queue)
      /\ pending_transactions \cap (confirmed \cup failed) = {}

\* The step that ends a tick: the task goes back to wait for its interval.
TickEnds == task_pc # "sleep" /\ task_pc' = "sleep"

\* C38: with no enqueue during a tick, every tick ends: its loop makes at
\* most max_retries submissions for a transaction, and it ends with the
\* queue empty or with a transaction that is not due yet put back.
C38_TickTerminates ==
    /\ [](\A s \in Sigs : tick_submits[s] <= MaxRetries)
    /\ [][TickEnds =>
            \/ queue' = <<>>
            \/ /\ task_pending_tx # NoTx
               /\ task_pending_tx.target_block > task_current_block
               /\ task_pending_tx.signature \in QueueSigs(queue')]_vars
    /\ (task_pc # "sleep" ~> task_pc = "sleep")

\* C38 witness: one tick has submitted a transaction max_retries times and
\* goes on with another transaction left in the queue.
C38_Witness ==
    /\ task_pc = "loop"
    /\ \E s \in Sigs : tick_submits[s] = MaxRetries
    /\ queue # <<>>

====
